---- MODULE Spec2Model ----
(***************************************************************************)
(* A model of the Item Service of backend/server.py: the request handlers *)
(* create_item, get_item, update_item and delete_item over the db.items   *)
(* collection.  A handler is cut at its awaits: every store call is one   *)
(* atomic step of the store, and the handler's own computation between    *)
(* two awaits belongs to the step that precedes it, except the reading of *)
(* the clock, which is a step of its own where a stored timestamp depends *)
(* on it.  Requests run concurrently, one per slot of req.                *)
(*                                                                         *)
(* Python values: None is <<>> and an Optional value v is <<v>>.  A        *)
(* datetime is [sec, us]; its isoformat() string is modelled by its parts *)
(* (the fraction is left out when the microseconds are 0).  A price is an *)
(* integer number of thousandths of the currency unit.                     *)
(***************************************************************************)
EXTENDS Integers, Sequences, FiniteSets, TLC

\* ------------------------------------------------------------------ bounds
MaxReq == 2          \* requests issued in one behaviour
MaxClock == 1        \* the clock advances at most this many half seconds
MaxDocs == 4         \* records of the catalogue a List or Statistics reads
MaxPage == 3         \* the largest page number a client asks for
MaxList == 3         \* List requests of one client paging through a query

\* ------------------------------------------------------- program constants
NameMinLen == 1
NameMaxLen == 100
DescriptionMaxLen == 500
CategoryMaxLen == 50
PriceGt == 0
QuantityGe == 0
PageGe == 1
PageSizeGe == 1
PageSizeLe == 100

VARIABLES
    items,      \* db.items: the documents of the collection, in natural order
    clock,      \* datetime.now(timezone.utc), in half seconds
    nextId,     \* the ids uuid.uuid4() has produced so far are 1..nextId-1
    req         \* the requests: req[r] is the state of request r's handler

vars == <<items, clock, nextId, req>>

\* ------------------------------------------------------------ Python values
None == <<>>
Some(v) == <<v>>

RECURSIVE Rep(_, _)
Rep(s, n) ==
    IF n = 0 THEN ""
    ELSE IF n = 1 THEN s
    ELSE Rep(s, n \div 2) \o Rep(s, n - (n \div 2))

\* datetime.now(timezone.utc) when the clock shows t
Now(t) == [sec |-> t \div 2, us |-> (t % 2) * 500000]

\* isoformat(timespec="seconds"): the fraction always left out
IsoformatSeconds(dt) == [secs |-> dt.sec, frac |-> None, tz |-> "+00:00"]

\* datetime.isoformat(): "<date>T<time>[.ffffff]+00:00", the fraction is
\* omitted when the microseconds are 0
Isoformat(dt) ==
    [secs |-> dt.sec,
     frac |-> IF dt.us = 0 THEN None ELSE Some(dt.us),
     tz |-> "+00:00"]

\* datetime.fromisoformat()
FromIsoformat(s) ==
    [sec |-> s.secs, us |-> IF s.frac = None THEN 0 ELSE s.frac[1]]

\* the order of datetimes
DtLess(a, b) == a.sec < b.sec \/ (a.sec = b.sec /\ a.us < b.us)
DtLeq(a, b) == a = b \/ DtLess(a, b)

\* ------------------------------------------------------------------ schemas
Fields == {"name", "description", "price", "quantity", "category"}

\* ItemBase with ge=0 for the price in place of gt=0
ItemBaseValidGe(b) ==
    /\ b.name # None
    /\ Len(b.name[1]) >= NameMinLen
    /\ Len(b.name[1]) <= NameMaxLen
    /\ b.description # None => Len(b.description[1]) <= DescriptionMaxLen
    /\ b.price # None
    /\ b.price[1] >= PriceGt
    /\ b.quantity # None
    /\ b.quantity[1] >= QuantityGe
    /\ b.category # None => Len(b.category[1]) <= CategoryMaxLen

\* Field(..., min_length=1, max_length=100) and the other constraints of
\* ItemBase; name, price and quantity are required
ItemBaseValid(b) ==
    /\ b.name # None
    /\ Len(b.name[1]) >= NameMinLen
    /\ Len(b.name[1]) <= NameMaxLen
    /\ b.description # None => Len(b.description[1]) <= DescriptionMaxLen
    /\ b.price # None
    /\ b.price[1] > PriceGt
    /\ b.quantity # None
    /\ b.quantity[1] >= QuantityGe
    /\ b.category # None => Len(b.category[1]) <= CategoryMaxLen

\* ItemUpdate with ge=0 for the price in place of gt=0
ItemUpdateValidGe(b) ==
    /\ b.name # None => Len(b.name[1]) >= NameMinLen /\ Len(b.name[1]) <= NameMaxLen
    /\ b.description # None => Len(b.description[1]) <= DescriptionMaxLen
    /\ b.price # None => b.price[1] >= PriceGt
    /\ b.quantity # None => b.quantity[1] >= QuantityGe
    /\ b.category # None => Len(b.category[1]) <= CategoryMaxLen

\* ItemUpdate: every field Optional, the same constraints on a field given
ItemUpdateValid(b) ==
    /\ b.name # None => Len(b.name[1]) >= NameMinLen /\ Len(b.name[1]) <= NameMaxLen
    /\ b.description # None => Len(b.description[1]) <= DescriptionMaxLen
    /\ b.price # None => b.price[1] > PriceGt
    /\ b.quantity # None => b.quantity[1] >= QuantityGe
    /\ b.category # None => Len(b.category[1]) <= CategoryMaxLen

\* Item(**item.model_dump()): the record with its generated fields
ItemObj(b, id, created, updated) ==
    [id |-> id,
     name |-> b.name[1],
     description |-> b.description,
     price |-> b.price[1],
     quantity |-> b.quantity[1],
     category |-> b.category,
     created_at |-> created,
     updated_at |-> updated]

\* doc = item_obj.model_dump() with both timestamps turned to isoformat()
ItemDoc(obj) ==
    [obj EXCEPT !.created_at = Isoformat(obj.created_at),
                !.updated_at = Isoformat(obj.updated_at)]

\* serialize_item of a document: the timestamps parsed back
serialize_item(doc) ==
    [doc EXCEPT !.created_at = FromIsoformat(doc.created_at),
                !.updated_at = FromIsoformat(doc.updated_at)]

\* ---------------------------------------------------------------- the store
\* the positions of the documents matching {"id": id}
Matches(id) == {i \in 1..Len(items) : items[i].id = id}

Min(S) == CHOOSE m \in S : \A n \in S : m <= n

\* find_one with an empty filter: the first document, whatever its id
FindOneAny(id) == IF Len(items) = 0 THEN None ELSE Some(items[1])

\* db.items.find_one({"id": id}): the first match, or None
FindOne(id) ==
    IF Matches(id) = {} THEN None ELSE Some(items[Min(Matches(id))])

\* update_data that keeps description and category when they are None
UpdateDataKeepsNone(b) ==
    [f \in {g \in Fields : b[g] # None \/ g \in {"description", "category"}} |-> b[f]]

\* {k: v for k, v in item_update.model_dump().items() if v is not None}
UpdateData(b) == [f \in {g \in Fields : b[g] # None} |-> b[f]]

\* the test for an empty update_data left out
NoUpdateDataNever(u) == FALSE

\* "if not update_data": no field of the body is set
NoUpdateData(u) == DOMAIN u = {}

\* update_data["updated_at"] = datetime.now(timezone.utc).isoformat()
WithUpdatedAt(u, now) ==
    [f \in DOMAIN u \cup {"updated_at"} |->
        IF f = "updated_at" THEN Isoformat(now) ELSE u[f]]

\* the fields of u applied, no default for the others
SetGiven(doc, u) ==
    [doc EXCEPT
        !.name = IF "name" \in DOMAIN u THEN u["name"][1] ELSE @,
        !.description = IF "description" \in DOMAIN u THEN u["description"] ELSE @,
        !.price = IF "price" \in DOMAIN u THEN u["price"][1] ELSE @,
        !.quantity = IF "quantity" \in DOMAIN u THEN u["quantity"][1] ELSE @,
        !.category = IF "category" \in DOMAIN u THEN u["category"] ELSE @,
        !.updated_at = IF "updated_at" \in DOMAIN u THEN u["updated_at"] ELSE @]

\* a $set that writes created_at along with updated_at
SetFieldsTouchCreated(doc, u) ==
    [SetGiven(doc, u) EXCEPT
        !.created_at = IF "updated_at" \in DOMAIN u THEN u["updated_at"] ELSE @]

\* a replacement of the document: an optional field that is not given is
\* reset to None
SetFieldsReplace(doc, u) ==
    [SetGiven(doc, u) EXCEPT
        !.description = IF "description" \in DOMAIN u THEN @ ELSE None,
        !.category = IF "category" \in DOMAIN u THEN @ ELSE None]

\* a $set that is skipped when no given field differs from the stored one
SetFieldsIfChanged(doc, u) ==
    IF [SetGiven(doc, u) EXCEPT !.updated_at = doc.updated_at] = doc
    THEN doc ELSE SetGiven(doc, u)

\* {"$set": update_data} applied to one document
SetFields(doc, u) ==
    [doc EXCEPT
        !.name = IF "name" \in DOMAIN u THEN u["name"][1] ELSE @,
        !.description = IF "description" \in DOMAIN u THEN u["description"] ELSE @,
        !.price = IF "price" \in DOMAIN u THEN u["price"][1] ELSE @,
        !.quantity = IF "quantity" \in DOMAIN u THEN u["quantity"][1] ELSE @,
        !.category = IF "category" \in DOMAIN u THEN u["category"] ELSE @,
        !.updated_at = IF "updated_at" \in DOMAIN u THEN u["updated_at"] ELSE @]

\* update_one with upsert=True: a document is inserted when none matches
UpdateOneUpsert(id, u) ==
    IF Matches(id) = {}
    THEN Append(items,
            SetGiven([id |-> id, name |-> "", description |-> None, price |-> 0,
                      quantity |-> 0, category |-> None,
                      created_at |-> u["updated_at"],
                      updated_at |-> u["updated_at"]], u))
    ELSE [items EXCEPT ![Min(Matches(id))] = SetGiven(@, u)]

\* db.items.update_one({"id": id}, {"$set": u}): the first match is updated,
\* nothing is inserted when there is none
UpdateOne(id, u) ==
    IF Matches(id) = {} THEN items
    ELSE [items EXCEPT ![Min(Matches(id))] = SetFields(@, u)]

\* db.items.delete_one({"id": id}): the collection without the first match
DeleteOne(id) ==
    IF Matches(id) = {} THEN items
    ELSE [i \in 1..(Len(items) - 1) |->
            IF i < Min(Matches(id)) THEN items[i] ELSE items[i + 1]]

\* the count of the result not looked at: taken to be 1
DeletedCountOne(id) == 1

\* result.deleted_count
DeletedCount(id) == IF Matches(id) = {} THEN 0 ELSE 1

\* ------------------------------------------------------------------- inputs
Body(n, d, p, q, c) ==
    [name |-> n, description |-> d, price |-> p, quantity |-> q, category |-> c]

NoBody == Body(None, None, None, None, None)

\* request bodies of POST /items: two that satisfy ItemBase and one for each
\* constraint that can be violated
CreateBodies ==
    { Body(Some("Laptop"), Some("fast"), Some(999), Some(10), Some("Electronics")),
      Body(Some("X"), None, Some(10), Some(5), None),
      Body(Some("X"), None, Some(-100), Some(5), None),
      Body(Some("X"), None, Some(0), Some(5), None),
      Body(Some("X"), None, Some(10), Some(-1), None),
      Body(Some(""), None, Some(10), Some(5), None),
      Body(None, None, Some(10), Some(5), None),
      Body(Some(Rep("n", NameMaxLen + 1)), None, Some(10), Some(5), None),
      Body(Some("X"), Some(Rep("d", DescriptionMaxLen + 1)), Some(10), Some(5), None),
      Body(Some("X"), None, Some(10), Some(5), Some(Rep("c", CategoryMaxLen + 1))) }

\* request bodies of PUT /items/{id}
UpdateBodies ==
    { NoBody,
      Body(None, None, Some(20), None, None),
      Body(None, None, Some(10), None, None),
      Body(Some("Y"), None, None, Some(0), None),
      Body(None, Some("new"), None, None, Some("Tools")),
      Body(None, None, Some(0), None, None),
      Body(None, None, None, Some(-1), None),
      Body(Some(""), None, None, None, None) }

\* the record the collection holds when the service starts
FirstItem ==
    ItemDoc(ItemObj(Body(Some("X"), Some("first"), Some(10), Some(5), None), 1, Now(0), Now(0)))

\* the ids a client can name: those generated so far, and 0, an id that
\* was never generated
ClientIds == 0..(nextId - 1)

\* ----------------------------------------------------------------- requests
Reqs == 1..MaxReq

\* the query parameters of a request that has none
NoQuery == [page |-> 0, page_size |-> 0, search |-> None, category |-> None]

Idle ==
    [op |-> "none", pc |-> "idle", item_id |-> 0, body |-> NoBody,
     existing_item |-> None, update_data |-> <<>>, status |-> 0, resp |-> None,
     query |-> NoQuery, total |-> 0, stats |-> None, json |-> <<>>]

\* requests take the slots in order
Free(r) == req[r].pc = "idle" /\ \A q \in 1..(r - 1) : req[q].pc # "idle"

Done(r, op, id, body, status, resp) ==
    req' = [req EXCEPT ![r] = [@ EXCEPT !.op = op, !.pc = "done", !.item_id = id,
                                        !.body = body, !.status = status,
                                        !.resp = resp]]

Init ==
    /\ items = <<FirstItem>>
    /\ clock = 0
    /\ nextId = 2
    /\ req = [r \in Reqs |-> Idle]

\* time passes
Tick ==
    /\ clock < MaxClock
    /\ clock' = clock + 1
    /\ UNCHANGED <<items, nextId, req>>

\* POST /items: a body that fails ItemCreate is answered 422 before the
\* handler runs; else the record is built (id, created_at, updated_at from
\* their default factories, the clock read twice) and inserted
CreateItem(r, body) ==
    /\ Free(r)
    /\ IF ~ItemBaseValid(body)
       THEN /\ Done(r, "create", 0, body, 422, None)
            /\ UNCHANGED <<items, clock, nextId>>
       ELSE \E later \in {clock, clock + 1} :
            /\ later <= MaxClock
            /\ LET obj == ItemObj(body, nextId, Now(clock), Now(later)) IN
               /\ items' = Append(items, ItemDoc(obj))
               /\ Done(r, "create", nextId, body, 201, Some(obj))
            /\ clock' = later
            /\ nextId' = nextId + 1

\* GET /items/{item_id}
GetItem(r, id) ==
    /\ Free(r)
    /\ LET item == FindOne(id) IN
       IF item = None
       THEN Done(r, "get", id, NoBody, 404, None)
       ELSE Done(r, "get", id, NoBody, 200, Some(serialize_item(item[1])))
    /\ UNCHANGED <<items, clock, nextId>>

\* PUT /items/{item_id}, to its first await: a body that fails ItemUpdate is
\* answered 422 before the handler runs; else existing_item is read, 404
\* when there is none, 400 when update_data is empty
UpdateFind(r, id, body) ==
    /\ Free(r)
    /\ IF ~ItemUpdateValid(body)
       THEN Done(r, "update", id, body, 422, None)
       ELSE LET existing_item == FindOne(id) IN
            IF existing_item = None
            THEN Done(r, "update", id, body, 404, None)
            ELSE IF NoUpdateData(UpdateData(body))
            THEN Done(r, "update", id, body, 400, None)
            ELSE req' = [req EXCEPT ![r] =
                    [@ EXCEPT !.op = "update", !.pc = "stamp", !.item_id = id,
                              !.body = body, !.existing_item = existing_item]]
    /\ UNCHANGED <<items, clock, nextId>>

\* update_data["updated_at"] = datetime.now(timezone.utc).isoformat()
UpdateStamp(r) ==
    /\ req[r].pc = "stamp"
    /\ req' = [req EXCEPT ![r] =
            [@ EXCEPT !.pc = "write",
                      !.update_data = WithUpdatedAt(UpdateData(req[r].body), Now(clock))]]
    /\ UNCHANGED <<items, clock, nextId>>

\* await db.items.update_one({"id": item_id}, {"$set": update_data})
UpdateWrite(r) ==
    /\ req[r].pc = "write"
    /\ items' = UpdateOne(req[r].item_id, req[r].update_data)
    /\ req' = [req EXCEPT ![r] = [@ EXCEPT !.pc = "refetch"]]
    /\ UNCHANGED <<clock, nextId>>

\* updated_item = await db.items.find_one(...); return await
\* serialize_item(updated_item): item_dict.get of None raises AttributeError,
\* which the framework answers 500
UpdateRefetch(r) ==
    /\ req[r].pc = "refetch"
    /\ LET updated_item == FindOne(req[r].item_id) IN
       IF updated_item = None
       THEN req' = [req EXCEPT ![r] = [@ EXCEPT !.pc = "done", !.status = 500]]
       ELSE req' = [req EXCEPT ![r] =
                [@ EXCEPT !.pc = "done", !.status = 200,
                          !.resp = Some(serialize_item(updated_item[1]))]]
    /\ UNCHANGED <<items, clock, nextId>>

\* DELETE /items/{item_id}, to its first await: the existence check
DeleteFind(r, id) ==
    /\ Free(r)
    /\ LET existing_item == FindOne(id) IN
       IF existing_item = None
       THEN Done(r, "delete", id, NoBody, 404, None)
       ELSE req' = [req EXCEPT ![r] =
                [@ EXCEPT !.op = "delete", !.pc = "delete", !.item_id = id,
                          !.existing_item = existing_item]]
    /\ UNCHANGED <<items, clock, nextId>>

\* result = await db.items.delete_one({"id": item_id}); 500 when
\* result.deleted_count == 0
DeleteRemove(r) ==
    /\ req[r].pc = "delete"
    /\ items' = DeleteOne(req[r].item_id)
    /\ req' = [req EXCEPT ![r] =
            [@ EXCEPT !.pc = "done",
                      !.status = IF DeletedCount(req[r].item_id) = 0 THEN 500 ELSE 200]]
    /\ UNCHANGED <<clock, nextId>>

Next ==
    \/ Tick
    \/ \E r \in Reqs, body \in CreateBodies : CreateItem(r, body)
    \/ \E r \in Reqs : \E id \in ClientIds : GetItem(r, id)
    \/ \E r \in Reqs, body \in UpdateBodies : \E id \in ClientIds : UpdateFind(r, id, body)
    \/ \E r \in Reqs : UpdateStamp(r)
    \/ \E r \in Reqs : UpdateWrite(r)
    \/ \E r \in Reqs : UpdateRefetch(r)
    \/ \E r \in Reqs : \E id \in ClientIds : DeleteFind(r, id)
    \/ \E r \in Reqs : DeleteRemove(r)

Spec == Init /\ [][Next]_vars

\* The same handlers when the requests on one id are served one at a time: a
\* request on an id is taken up only when no other request on that id is in
\* flight (requests on other ids run concurrently).
NoneInFlightOn(id) ==
    \A r \in Reqs : req[r].pc \in {"idle", "done"} \/ req[r].item_id # id

NextSeq ==
    \/ Tick
    \/ \E r \in Reqs, body \in CreateBodies : CreateItem(r, body)
    \/ \E r \in Reqs : \E id \in ClientIds : NoneInFlightOn(id) /\ GetItem(r, id)
    \/ \E r \in Reqs, body \in UpdateBodies :
            \E id \in ClientIds : NoneInFlightOn(id) /\ UpdateFind(r, id, body)
    \/ \E r \in Reqs : UpdateStamp(r)
    \/ \E r \in Reqs : UpdateWrite(r)
    \/ \E r \in Reqs : UpdateRefetch(r)
    \/ \E r \in Reqs : \E id \in ClientIds : NoneInFlightOn(id) /\ DeleteFind(r, id)
    \/ \E r \in Reqs : DeleteRemove(r)

SeqSpec == Init /\ [][NextSeq]_vars

\* -------------------------------------------------------------------- List
\* the characters of the strings that names, categories and filters are made
\* of
Chars(s) ==
    CASE s = "" -> <<>>
      [] s = "X" -> <<"X">>
      [] s = "Y" -> <<"Y">>
      [] s = "Laptop" -> <<"L", "a", "p", "t", "o", "p">>
      [] s = "Lamp" -> <<"L", "a", "m", "p">>
      [] s = "Stylus" -> <<"S", "t", "y", "l", "u", "s">>
      [] s = "lap" -> <<"l", "a", "p">>
      [] s = "TOP" -> <<"T", "O", "P">>
      [] s = "l.p" -> <<"l", ".", "p">>
      [] s = "Electronics" -> <<"E", "l", "e", "c", "t", "r", "o", "n", "i", "c", "s">>
      [] s = "Tools" -> <<"T", "o", "o", "l", "s">>
      [] s = "Toolset" -> <<"T", "o", "o", "l", "s", "e", "t">>
      [] s = "tools" -> <<"t", "o", "o", "l", "s">>
      [] s = "Tool" -> <<"T", "o", "o", "l">>
      [] s = "t..ls" -> <<"t", ".", ".", "l", "s">>
      [] s = "tools|x" -> <<"t", "o", "o", "l", "s", "|", "x">>
      [] s = "first" -> <<"f", "i", "r", "s", "t">>
      [] s = "fast" -> <<"f", "a", "s", "t">>
      [] s = "new" -> <<"n", "e", "w">>

\* the lower-case form of a character ("i" of $options)
Lower(c) ==
    CASE c = "E" -> "e" [] c = "L" -> "l" [] c = "O" -> "o" [] c = "P" -> "p"
      [] c = "S" -> "s" [] c = "T" -> "t" [] c = "X" -> "x" [] c = "Y" -> "y"
      [] OTHER -> c

\* the positions of "|" in a pattern, with the two ends
Bars(pat) == {0, Len(pat) + 1} \cup {i \in 1..Len(pat) : pat[i] = "|"}

\* the alternatives of a pattern: its parts between two "|"
Alternatives(pat) ==
    { [i \in 1..(b - a - 1) |-> pat[a + i]] :
        <<a, b>> \in { ab \in Bars(pat) \X Bars(pat) :
                        /\ ab[1] < ab[2]
                        /\ \A k \in Bars(pat) : ~(ab[1] < k /\ k < ab[2]) } }

\* one alternative found in a text: "^" at its start ties it to the start of
\* the text, "$" at its end to the end, "." stands for any character and
\* every other character for itself, upper or lower case
AltFound(alt, text) ==
    LET atStart == Len(alt) > 0 /\ alt[1] = "^"
        atEnd == Len(alt) > 0 /\ alt[Len(alt)] = "$"
        from == IF atStart THEN 2 ELSE 1
        to == IF atEnd THEN Len(alt) - 1 ELSE Len(alt)
        n == to - from + 1
    IN  \E k \in 0..(Len(text) - n) :
            /\ atStart => k = 0
            /\ atEnd => k = Len(text) - n
            /\ \A i \in 1..n :
                \/ alt[from + i - 1] = "."
                \/ Lower(alt[from + i - 1]) = Lower(text[k + i])

\* {"$regex": pat, "$options": "i"} on a string value
RegexFound(pat, text) == \E alt \in Alternatives(pat) : AltFound(alt, text)

\* query_filter: "if search" and "if category" are false for None and for ""
QueryFilter(search, category) ==
    [name |-> IF search = None \/ search[1] = "" THEN None
              ELSE Some(Chars(search[1])),
     category |-> IF category = None \/ category[1] = "" THEN None
                  ELSE Some(<<"^">> \o Chars(category[1]) \o <<"$">>)]

\* a document matches query_filter; a $regex matches no field that is null
FilterMatches(doc, filter) ==
    /\ filter.name # None => RegexFound(filter.name[1], Chars(doc.name))
    /\ filter.category # None =>
        /\ doc.category # None
        /\ RegexFound(filter.category[1], Chars(doc.category[1]))

\* the positions of the documents that match, in the order of the collection
MatchPositions(filter) == {i \in 1..Len(items) : FilterMatches(items[i], filter)}

\* the n-th smallest member of a set of numbers
RECURSIVE Nth(_, _)
Nth(S, n) == IF n = 1 THEN Min(S) ELSE Nth(S \ {Min(S)}, n - 1)

\* db.items.count_documents(query_filter)
CountDocuments(filter) == Cardinality(MatchPositions(filter))

\* skip = page * page_size: the first page skipped
SkipOfPageUp(page, page_size) == page * page_size

\* skip = (page - 1) * page_size
SkipOf(page, page_size) == (page - 1) * page_size

\* total_pages without the case of no record
TotalPagesNoZeroCase(total, page_size) == (total + page_size - 1) \div page_size

\* total_pages = (total + page_size - 1) // page_size if total > 0 else 1
TotalPages(total, page_size) ==
    IF total > 0 THEN (total + page_size - 1) \div page_size ELSE 1

\* db.items.find(query_filter, {"_id": 0}).skip(skip).limit(limit)
FindPage(filter, skip, limit) ==
    LET M == MatchPositions(filter)
        left == IF Cardinality(M) > skip THEN Cardinality(M) - skip ELSE 0
        n == IF left < limit THEN left ELSE limit
    IN  [i \in 1..n |-> items[Nth(M, skip + i)]]

\* Query(1, ge=1) and Query(10, ge=1, le=100)
QueryValid(page, page_size) ==
    page >= PageGe /\ page_size >= PageSizeGe /\ page_size <= PageSizeLe

\* GET /items, to its first await: a page or page_size out of range is
\* answered 422 before the handler runs; else the matches are counted
ListCount(r, page, page_size, search, category) ==
    /\ Free(r)
    /\ LET q == [page |-> page, page_size |-> page_size,
                 search |-> search, category |-> category] IN
       IF ~QueryValid(page, page_size)
       THEN req' = [req EXCEPT ![r] =
                [@ EXCEPT !.op = "list", !.pc = "done", !.query = q, !.status = 422]]
       ELSE req' = [req EXCEPT ![r] =
                [@ EXCEPT !.op = "list", !.pc = "find", !.query = q,
                          !.total = CountDocuments(QueryFilter(search, category))]]
    /\ UNCHANGED <<items, clock, nextId>>

\* the page is fetched, serialised and returned with total and total_pages
ListFind(r) ==
    /\ req[r].pc = "find"
    /\ LET q == req[r].query
           items_list == FindPage(QueryFilter(q.search, q.category),
                                  SkipOf(q.page, q.page_size), q.page_size)
       IN req' = [req EXCEPT ![r] =
            [@ EXCEPT !.pc = "done", !.status = 200,
                      !.resp = Some([items |-> [i \in 1..Len(items_list) |->
                                                  serialize_item(items_list[i])],
                                     total |-> req[r].total,
                                     page |-> q.page,
                                     page_size |-> q.page_size,
                                     total_pages |-> TotalPages(req[r].total,
                                                                q.page_size)])]]
    /\ UNCHANGED <<items, clock, nextId>>

\* the i-th record of the catalogue
CatalogueDoc(i) ==
    LET names == <<"Laptop", "Lamp", "Stylus", "X">>
        cats == <<Some("Electronics"), Some("Toolset"), Some("Tools"), None, Some("")>>
        prices == <<999990, 12345, 4, 10>>
    IN  ItemDoc(ItemObj(Body(Some(names[((i - 1) % 4) + 1]), None,
                             Some(prices[((i - 1) % 4) + 1]), Some((i + 2) % 3),
                             cats[((i - 1) % 5) + 1]),
                        i, Now(0), Now(0)))

\* the collection when it holds the first n records of the catalogue
Catalogue(n) == [i \in 1..n |-> CatalogueDoc(i)]

\* the values of the search and category parameters
Searches == {None, Some(""), Some("lap"), Some("TOP"), Some("l.p")}
Categories == {None, Some("tools"), Some("Tool"), Some("t..ls"), Some("tools|x")}

\* the requests of a client that pages through one query
ListReqs == 1..MaxList

\* a catalogue is stored and no request has been made
InitList ==
    /\ \E n \in 0..MaxDocs : items = Catalogue(n)
    /\ clock = 0
    /\ nextId = Len(items) + 1
    /\ req = [r \in ListReqs |-> Idle]

\* the first List of a client: any page and page_size without a filter, or a
\* page of two with any filters
FirstList ==
    \/ \E page \in 0..MaxPage, page_size \in 0..(PageSizeLe + 1) :
            ListCount(1, page, page_size, None, None)
    \/ \E page \in 1..MaxPage, search \in Searches, category \in Categories :
            ListCount(1, page, 2, search, category)

\* a further List of the client, when the one before has been answered: the
\* same query, any page
FurtherList ==
    \E r \in ListReqs \ {1}, page \in 0..MaxPage :
        /\ req[r - 1].pc = "done"
        /\ ListCount(r, page, req[1].query.page_size,
                     req[1].query.search, req[1].query.category)

NextList ==
    \/ FirstList
    \/ FurtherList
    \/ \E r \in ListReqs : ListFind(r)

ListSpec == InitList /\ [][NextList]_vars

\* ----------------------------------------------------------- GET /items/stats/summary
\* the sum of a sequence of numbers
RECURSIVE SumSeq(_)
SumSeq(s) == IF s = <<>> THEN 0 ELSE Head(s) + SumSeq(Tail(s))

\* the largest number of a set
Max(S) == CHOOSE m \in S : \A n \in S : m >= n

\* the single $group of the pipeline over the collection: no document when
\* the collection is empty; $avg is kept as the exact quotient sum / n
Aggregate ==
    IF Len(items) = 0 THEN <<>>
    ELSE LET prices == {items[i].price : i \in 1..Len(items)} IN
         << [total_quantity |-> SumSeq([i \in 1..Len(items) |-> items[i].quantity]),
             total_value |-> SumSeq([i \in 1..Len(items) |->
                                        items[i].price * items[i].quantity]),
             average_price |-> [sum |-> SumSeq([i \in 1..Len(items) |-> items[i].price]),
                                n |-> Len(items)],
             min_price |-> Min(prices),
             max_price |-> Max(prices)] >>

\* round(x, 1) of x = num / n thousandths: one decimal place
Round1(num, n) ==
    LET lo == 100 * (num \div (100 * n))
        r == num - lo * n
    IN  IF 2 * r < 100 * n THEN {lo}
        ELSE IF 2 * r > 100 * n THEN {lo + 100} ELSE {lo, lo + 100}

\* round(x, 2) of x = num / n thousandths: the nearest hundredth; a value
\* half way between two hundredths goes to either, as its float decides
Round2(num, n) ==
    LET lo == 10 * (num \div (10 * n))
        r == num - lo * n
    IN  IF 2 * r < 10 * n THEN {lo}
        ELSE IF 2 * r > 10 * n THEN {lo + 10} ELSE {lo, lo + 10}

\* the lists distinct("category") may return: every stored value once, in
\* an order the store chooses
Distinct ==
    LET S == {items[i].category : i \in 1..Len(items)} IN
    {s \in [1..Cardinality(S) -> S] : \A i, j \in DOMAIN s : i # j => s[i] # s[j]}

\* a category that is None or "" is falsy
Truthy(c) == c # None /\ c # Some("")

\* [c for c in categories if c]
KeepTruthy(categories) ==
    LET kept == SelectSeq(categories, Truthy)
    IN  [i \in 1..Len(kept) |-> kept[i][1]]

\* the response for a collection without documents
EmptyStatistics ==
    [total_items |-> 0, total_quantity |-> 0, total_value |-> 0,
     average_price |-> 0, categories |-> <<>>]

\* the empty collection answered as a failure
StatsCountEmptyFails(r) ==
    /\ Free(r)
    /\ IF Len(items) = 0
       THEN req' = [req EXCEPT ![r] = [@ EXCEPT !.op = "stats", !.pc = "done",
                                                !.status = 500]]
       ELSE req' = [req EXCEPT ![r] = [@ EXCEPT !.op = "stats", !.pc = "aggregate",
                                                !.total = Len(items)]]
    /\ UNCHANGED <<items, clock, nextId>>

\* GET /items/stats/summary, to its first await: the documents are counted
\* and an empty collection is answered at once
StatsCount(r) ==
    /\ Free(r)
    /\ IF Len(items) = 0
       THEN req' = [req EXCEPT ![r] = [@ EXCEPT !.op = "stats", !.pc = "done",
                                                !.status = 200,
                                                !.resp = Some(EmptyStatistics)]]
       ELSE req' = [req EXCEPT ![r] = [@ EXCEPT !.op = "stats", !.pc = "aggregate",
                                                !.total = Len(items)]]
    /\ UNCHANGED <<items, clock, nextId>>

\* the aggregation runs: stats = stats_list[0] if stats_list else {}
StatsAggregate(r) ==
    /\ req[r].pc = "aggregate"
    /\ req' = [req EXCEPT ![r] = [@ EXCEPT !.pc = "distinct", !.stats = Aggregate]]
    /\ UNCHANGED <<items, clock, nextId>>

\* the categories are read and the summary is returned
StatsDistinct(r) ==
    /\ req[r].pc = "distinct"
    /\ LET stats == req[r].stats
           has == stats # <<>>
       IN \E categories \in Distinct :
          \E total_value \in (IF has THEN Round2(stats[1].total_value, 1) ELSE {0}) :
          \E average_price \in (IF has THEN Round2(stats[1].average_price.sum,
                                                   stats[1].average_price.n)
                                ELSE {0}) :
            req' = [req EXCEPT ![r] =
                [@ EXCEPT !.pc = "done", !.status = 200,
                          !.resp = Some(
                            [total_items |-> req[r].total,
                             total_quantity |-> IF has THEN stats[1].total_quantity ELSE 0,
                             total_value |-> total_value,
                             average_price |-> average_price,
                             min_price |-> IF has THEN stats[1].min_price ELSE 0,
                             max_price |-> IF has THEN stats[1].max_price ELSE 0,
                             categories |-> KeepTruthy(categories)])]]
    /\ UNCHANGED <<items, clock, nextId>>

\* the records of a collection whose ids are in S, in the order of insertion
RECURSIVE Keep(_, _)
Keep(coll, S) ==
    IF coll = <<>> THEN <<>>
    ELSE (IF Head(coll).id \in S THEN <<Head(coll)>> ELSE <<>>) \o Keep(Tail(coll), S)

\* some records of the catalogue were created and some of them deleted
\* again; no request is under way
InitStats ==
    /\ \E S \in SUBSET (1..(MaxDocs + 2)) : items = Keep(Catalogue(MaxDocs + 2), S)
    /\ clock = 0
    /\ nextId = MaxDocs + 3
    /\ req = [r \in Reqs |-> Idle]

\* Statistics requests over a collection nobody writes
NextStats ==
    \/ \E r \in Reqs : StatsCount(r)
    \/ \E r \in Reqs : StatsAggregate(r)
    \/ \E r \in Reqs : StatsDistinct(r)

StatsSpec == InitStats /\ [][NextStats]_vars

\* ------------------------------------------------- PUT /items/{id}, raw body
\* A JSON object is a function from the keys it has to None (null) or
\* Some(value).
\* item_update: ItemUpdate parsed from a JSON object: a key that is missing
\* takes its default None, a key given as null is None
ItemUpdate(json) == [f \in Fields |-> IF f \in DOMAIN json THEN json[f] ELSE None]

\* JSON bodies of PUT /items/{id}: keys missing, keys null, keys with values
UpdateJsons ==
    { <<>>,
      [description |-> None],
      [name |-> None, description |-> None, price |-> None, quantity |-> None,
       category |-> None],
      [category |-> Some("Tools")],
      [category |-> None, name |-> Some("Y")],
      [description |-> None, price |-> Some(20)],
      [description |-> Some("new"), category |-> None],
      [description |-> None, price |-> Some(0)] }

\* PUT /items/{item_id} with a JSON body, to its second await: the body is
\* parsed and validated, then the handler runs as in UpdateFind
UpdateJsonFind(r, id, json) ==
    /\ Free(r)
    /\ LET body == ItemUpdate(json)
           Answer(status) == req' = [req EXCEPT ![r] =
                [@ EXCEPT !.op = "update", !.pc = "done", !.item_id = id,
                          !.body = body, !.json = json, !.status = status]]
       IN IF ~ItemUpdateValid(body) THEN Answer(422)
          ELSE LET existing_item == FindOne(id) IN
               IF existing_item = None THEN Answer(404)
               ELSE IF NoUpdateData(UpdateData(body)) THEN Answer(400)
               ELSE req' = [req EXCEPT ![r] =
                        [@ EXCEPT !.op = "update", !.pc = "stamp", !.item_id = id,
                                  !.body = body, !.json = json,
                                  !.existing_item = existing_item]]
    /\ UNCHANGED <<items, clock, nextId>>

\* Updates with JSON bodies, concurrent, while time passes
NextJson ==
    \/ Tick
    \/ \E r \in Reqs, json \in UpdateJsons : \E id \in ClientIds : UpdateJsonFind(r, id, json)
    \/ \E r \in Reqs : UpdateStamp(r)
    \/ \E r \in Reqs : UpdateWrite(r)
    \/ \E r \in Reqs : UpdateRefetch(r)

JsonSpec == Init /\ [][NextJson]_vars

\* Statistics while records are created and deleted
NextRace ==
    \/ \E r \in Reqs, body \in CreateBodies : CreateItem(r, body)
    \/ \E r \in Reqs : \E id \in ClientIds : DeleteFind(r, id)
    \/ \E r \in Reqs : DeleteRemove(r)
    \/ \E r \in Reqs : StatsCount(r)
    \/ \E r \in Reqs : StatsAggregate(r)
    \/ \E r \in Reqs : StatsDistinct(r)

RaceSpec == Init /\ [][NextRace]_vars




\* ------------------------------------------------------------------- claims
\* request r has finished as operation op with HTTP status st
Ended(r, op, st) == req[r].pc = "done" /\ req[r].op = op /\ req[r].status = st

\* request q has performed its store write on the record id
Wrote(q, id) ==
    /\ req[q].item_id = id
    /\ \/ req[q].op = "update" /\ req[q].pc = "refetch"
       \/ req[q].op = "update" /\ req[q].pc = "done" /\ req[q].status \in {200, 500}
       \/ req[q].op = "delete" /\ req[q].pc = "done" /\ req[q].status \in {200, 500}

\* the stored document with the given id (there is one)
Stored(coll, id) == coll[CHOOSE i \in 1..Len(coll) : coll[i].id = id]

\* the fields a body supplies
Supplied(b) == {f \in Fields : b[f] # None}

\* the value a body supplies for field f, as a record holds it
SuppliedValue(b, f) ==
    IF f \in {"description", "category"} THEN b[f] ELSE b[f][1]

\* C1: a Get of an id that a Create returned, with no write to that id between
\* the two, answers 200 with a record equal to the one Create returned in
\* every field, the two timestamps included.
C1_CreateThenGet ==
    [][\A g \in Reqs, c \in Reqs :
        ( /\ req[g].pc = "idle"
          /\ req'[g].op = "get"
          /\ Ended(c, "create", 201)
          /\ req'[g].item_id = req[c].item_id
          /\ ~\E q \in Reqs : Wrote(q, req[c].item_id) )
        => /\ req'[g].status = 200
           /\ req'[g].resp = req[c].resp]_vars

\* a Create made at a time with a fraction of a second, and a Get of its id
\* that returned the same record
C1_Witness ==
    \E g \in Reqs, c \in Reqs :
        /\ Ended(c, "create", 201)
        /\ Ended(g, "get", 200)
        /\ req[g].item_id = req[c].item_id
        /\ req[g].resp = req[c].resp
        /\ req[c].resp[1].updated_at.us # 0

\* C2: every persisted record has price > 0 and quantity >= 0.
C2_PricePositiveQuantityNonNegative ==
    \A i \in 1..Len(items) : items[i].price > 0 /\ items[i].quantity >= 0

\* an Update that set a price has succeeded and a request that carried a
\* price <= 0 or a quantity < 0 was refused
C2_Witness ==
    /\ \E r \in Reqs : Ended(r, "update", 200) /\ req[r].body.price # None
    /\ \E q \in Reqs :
        /\ req[q].status = 422
        /\ \/ req[q].body.price # None /\ req[q].body.price[1] <= 0
           \/ req[q].body.quantity # None /\ req[q].body.quantity[1] < 0

\* the body breaks a field constraint of the data model (name 1..100
\* characters, description at most 500, price > 0, quantity >= 0, category at
\* most 50, name, price and quantity required)
BreaksCreateConstraint(b) ==
    \/ b.name = None \/ b.price = None \/ b.quantity = None
    \/ b.name # None /\ (Len(b.name[1]) < 1 \/ Len(b.name[1]) > 100)
    \/ b.description # None /\ Len(b.description[1]) > 500
    \/ b.price # None /\ b.price[1] <= 0
    \/ b.quantity # None /\ b.quantity[1] < 0
    \/ b.category # None /\ Len(b.category[1]) > 50

\* C3: a Create whose body breaks a field constraint is answered 422 and
\* leaves the collection as it was: nothing inserted, the total unchanged.
C3_InvalidCreateRejected ==
    [][\A r \in Reqs :
        ( /\ req[r].pc = "idle"
          /\ req'[r].op = "create"
          /\ BreaksCreateConstraint(req'[r].body) )
        => /\ req'[r].pc = "done"
           /\ req'[r].status = 422
           /\ req'[r].resp = None
           /\ items' = items
           /\ Len(items') = Len(items)]_vars

\* a Create with a price of -100 was refused and the collection still holds
\* the one record it started with
C3_Witness ==
    \E r \in Reqs :
        /\ Ended(r, "create", 422)
        /\ req[r].body.price = Some(-100)
        /\ items = <<FirstItem>>

\* C4: as long as a record is stored its id and its created_at do not change:
\* a step that removes no record leaves every record at its place with its id
\* and created_at, and a step that removes one leaves only records that were
\* there with the same id and created_at.
C4_IdAndCreatedAtKept ==
    [][ /\ Len(items') >= Len(items) =>
            \A i \in 1..Len(items) :
                /\ items'[i].id = items[i].id
                /\ items'[i].created_at = items[i].created_at
        /\ Len(items') < Len(items) =>
            \A j \in 1..Len(items') : \E i \in 1..Len(items) :
                /\ items'[j].id = items[i].id
                /\ items'[j].created_at = items[i].created_at ]_vars

\* an Update has refreshed updated_at of a record, which now differs from its
\* created_at
C4_Witness ==
    \E r \in Reqs :
        /\ Ended(r, "update", 200)
        /\ \E i \in 1..Len(items) :
            /\ items[i].id = req[r].item_id
            /\ items[i].updated_at # items[i].created_at
            /\ items[i].updated_at = req[r].update_data["updated_at"]

\* C5: the store write of an Update changes, in the record with the id, only
\* the fields its body supplies and updated_at, and no other record.
C5_UpdateFrame ==
    [][\A r \in Reqs :
        (req[r].pc = "write" /\ req'[r].pc = "refetch")
        => /\ Len(items') = Len(items)
           /\ \A i \in 1..Len(items) :
                IF items[i].id = req[r].item_id
                THEN /\ items'[i].id = items[i].id
                     /\ items'[i].created_at = items[i].created_at
                     /\ \A f \in Fields \ Supplied(req[r].body) :
                            items'[i][f] = items[i][f]
                ELSE items'[i] = items[i]]_vars

\* an Update that supplied the price alone has written a record that has a
\* description, while another record is stored
C5_Witness ==
    \E r \in Reqs :
        /\ req[r].op = "update"
        /\ req[r].pc = "refetch"
        /\ Supplied(req[r].body) = {"price"}
        /\ Len(items) > 1
        /\ \E i \in 1..Len(items) :
            /\ items[i].id = req[r].item_id
            /\ items[i].description # None
            /\ items[i].price = req[r].body.price[1]
            /\ items[i].updated_at = req[r].update_data["updated_at"]

\* C6: the record a successful Update returns has every field its body
\* supplied equal to the supplied value, whatever else ran meanwhile.
C6_ReturnedRecordHasSuppliedFields ==
    \A r \in Reqs :
        Ended(r, "update", 200) =>
            \A f \in Supplied(req[r].body) :
                req[r].resp[1][f] = SuppliedValue(req[r].body, f)

\* C7: no step of the store replaces the updated_at of a record by an earlier
\* time.
C7_UpdatedAtNeverDecreases ==
    [][\A i \in 1..Len(items), j \in 1..Len(items') :
        items'[j].id = items[i].id =>
            DtLeq(FromIsoformat(items[i].updated_at),
                  FromIsoformat(items'[j].updated_at))]_vars

\* C8: an Update with no other request on its id in flight that took its timestamp after the time the
\* record was last written returns, and leaves stored, an updated_at later
\* than the one the record had, also when the value it supplies is the one
\* the record holds.
C8_UpdateRefreshesUpdatedAt ==
    [][\A r \in Reqs :
        ( /\ req[r].pc = "refetch"
          /\ req'[r].pc = "done"
          /\ req'[r].status = 200
          /\ DtLess(FromIsoformat(req[r].existing_item[1].updated_at),
                    FromIsoformat(req[r].update_data["updated_at"])) )
        => /\ DtLess(FromIsoformat(req[r].existing_item[1].updated_at),
                     req'[r].resp[1].updated_at)
           /\ DtLess(FromIsoformat(req[r].existing_item[1].updated_at),
                     FromIsoformat(Stored(items', req[r].item_id).updated_at))]_vars

\* an Update that supplied only the price the record already had has
\* succeeded, and returned a later updated_at with every other field as before
C8_Witness ==
    \E r \in Reqs :
        /\ Ended(r, "update", 200)
        /\ Supplied(req[r].body) = {"price"}
        /\ req[r].body.price[1] = req[r].existing_item[1].price
        /\ DtLess(FromIsoformat(req[r].existing_item[1].updated_at),
                  req[r].resp[1].updated_at)
        /\ [req[r].resp[1] EXCEPT !.updated_at = 0]
            = [serialize_item(req[r].existing_item[1]) EXCEPT !.updated_at = 0]

\* C9: an Update ends 200 with the record, 404, 400 or 422.
C9_UpdateOutcomes ==
    \A r \in Reqs :
        (req[r].op = "update" /\ req[r].pc = "done") =>
            /\ req[r].status \in {200, 404, 400, 422}
            /\ req[r].status = 200 => req[r].resp # None

\* C10: an Update of an existing id whose body sets no field is answered 400
\* at once and leaves the collection as it was; a request that has been
\* answered does nothing more.
C10_EmptyUpdateRejected ==
    [][\A r \in Reqs :
        /\ ( /\ req[r].pc = "idle"
             /\ req'[r].op = "update"
             /\ Supplied(req'[r].body) = {}
             /\ \E i \in 1..Len(items) : items[i].id = req'[r].item_id )
           => /\ req'[r].pc = "done"
              /\ req'[r].status = 400
              /\ req'[r].resp = None
              /\ items' = items
        /\ req[r].pc = "done" => req'[r] = req[r]]_vars

\* an Update with no field was refused for a record that is stored with the
\* updated_at it had
C10_Witness ==
    \E r \in Reqs :
        /\ Ended(r, "update", 400)
        /\ Supplied(req[r].body) = {}
        /\ req[r].item_id = 1
        /\ items = <<FirstItem>>
        /\ clock > 0

\* C11: a Get answers 200 with the stored record that has the id when there
\* is one and 404 when there is none, and leaves the collection as it was.
C11_GetReturnsStoredOrNotFound ==
    [][\A g \in Reqs :
        (req[g].pc = "idle" /\ req'[g].op = "get")
        => /\ items' = items
           /\ req'[g].pc = "done"
           /\ IF \E i \in 1..Len(items) : items[i].id = req'[g].item_id
              THEN /\ req'[g].status = 200
                   /\ req'[g].resp # None
                   /\ req'[g].resp[1].id = req'[g].item_id
                   /\ \E i \in 1..Len(items) :
                        /\ items[i].id = req'[g].item_id
                        /\ \A f \in Fields : req'[g].resp[1][f] = items[i][f]
                        /\ Isoformat(req'[g].resp[1].created_at) = items[i].created_at
                        /\ Isoformat(req'[g].resp[1].updated_at) = items[i].updated_at
              ELSE /\ req'[g].status = 404
                   /\ req'[g].resp = None]_vars

\* a Get of the stored record returned it, and a Get of an id that was never
\* generated was answered 404
C11_Witness ==
    \E g \in Reqs, h \in Reqs :
        /\ Ended(g, "get", 200)
        /\ req[g].item_id = 1
        /\ req[g].resp[1].id = 1
        /\ req[g].resp[1].name = "X"
        /\ Ended(h, "get", 404)
        /\ req[h].item_id = 0

\* C12: once a Delete of an id has reported success no record with that id is
\* stored any more, and every Get and every Delete of that id taken up from
\* then on is answered 404.
C12_DeletedForGood ==
    [][ /\ \A r \in Reqs :
            ( /\ req[r].pc = "idle"
              /\ req'[r].op \in {"get", "delete"}
              /\ \E d \in Reqs : Ended(d, "delete", 200)
                                    /\ req[d].item_id = req'[r].item_id )
            => /\ req'[r].pc = "done"
               /\ req'[r].status = 404
        /\ \A d \in Reqs :
            (req'[d].pc = "done" /\ req'[d].op = "delete" /\ req'[d].status = 200)
            => \A i \in 1..Len(items') : items'[i].id # req'[d].item_id ]_vars

\* a Delete succeeded and a second Delete of the same id was answered 404
C12_Witness ==
    \E d \in Reqs, e \in Reqs :
        /\ Ended(d, "delete", 200)
        /\ Ended(e, "delete", 404)
        /\ req[e].item_id = req[d].item_id

\* the Deletes of id, and those that reported success
DeletesOf(id) == {r \in Reqs : req[r].op = "delete" /\ req[r].item_id = id}
DeleteSuccesses(id) == {r \in DeletesOf(id) : req[r].pc = "done" /\ req[r].status = 200}

\* of the Deletes of one record at most one has reported success, and when
\* all of them have ended exactly one has and the others ended 404 or 500
OneDeleteSucceeds ==
    \A id \in 1..(nextId - 1) :
        /\ Cardinality(DeleteSuccesses(id)) <= 1
        /\ (DeletesOf(id) # {} /\ \A r \in DeletesOf(id) : req[r].pc = "done")
            => /\ Cardinality(DeleteSuccesses(id)) = 1
               /\ \A r \in DeletesOf(id) \ DeleteSuccesses(id) :
                    req[r].status \in {404, 500}

\* C13: of any number of concurrent Deletes of one existing record exactly one
\* reports success and the others 404 or 500, and a Delete reports success
\* only when its own delete_one removed a record.
C13_ExactlyOneDeleteSucceeds ==
    [][ /\ OneDeleteSucceeds'
        /\ \A r \in Reqs :
            (req[r].pc = "delete" /\ req'[r].status = 200)
            => /\ Len(items') = Len(items) - 1
               /\ \E i \in 1..Len(items) : items[i].id = req[r].item_id
               /\ \A j \in 1..Len(items') : items'[j].id # req[r].item_id ]_vars

\* two Deletes of the first record passed their existence checks; one removed
\* it and reported success, the other removed nothing and was answered 500
C13_Witness ==
    \E d \in Reqs, e \in Reqs :
        /\ Ended(d, "delete", 200)
        /\ Ended(e, "delete", 500)
        /\ req[d].item_id = 1
        /\ req[e].item_id = 1
        /\ items = <<>>

\* C20: when two Updates of one record have both succeeded and nothing else
\* has written the record, it holds, for a field supplied by one of them
\* alone, the value that one supplied, and for a field supplied by both the
\* value of one of the two.
C20_LastWriteWinsPerField ==
    \A a \in Reqs, b \in Reqs :
        ( /\ a # b
          /\ Ended(a, "update", 200)
          /\ Ended(b, "update", 200)
          /\ req[a].item_id = req[b].item_id
          /\ \A q \in Reqs \ {a, b} : ~Wrote(q, req[a].item_id)
          /\ \E i \in 1..Len(items) : items[i].id = req[a].item_id )
        => LET doc == Stored(items, req[a].item_id) IN
           \A f \in Fields :
            /\ f \in Supplied(req[a].body) \ Supplied(req[b].body)
                => doc[f] = SuppliedValue(req[a].body, f)
            /\ f \in Supplied(req[a].body) \cap Supplied(req[b].body)
                => doc[f] \in {SuppliedValue(req[a].body, f),
                               SuppliedValue(req[b].body, f)}

\* two Updates of the first record, one of the price and one of the
\* description and category, both read the record before either wrote it and
\* both succeeded; the record holds what each supplied
C20_Witness ==
    \E a \in Reqs, b \in Reqs :
        /\ Ended(a, "update", 200)
        /\ Ended(b, "update", 200)
        /\ req[a].item_id = 1
        /\ req[b].item_id = 1
        /\ req[a].existing_item = Some(FirstItem)
        /\ req[b].existing_item = Some(FirstItem)
        /\ Supplied(req[a].body) = {"price"}
        /\ Supplied(req[b].body) = {"description", "category"}
        /\ Stored(items, 1).price = 20
        /\ Stored(items, 1).description = Some("new")
        /\ Stored(items, 1).category = Some("Tools")

\* the List requests answered 200 for page p
PageAnswers(p) ==
    {r \in ListReqs : Ended(r, "list", 200) /\ req[r].query.page = p}

\* the records of the answers for pages 1..p, page after page
RECURSIVE PagesUpTo(_)
PagesUpTo(p) ==
    IF p = 0 THEN <<>>
    ELSE PagesUpTo(p - 1) \o req[CHOOSE r \in PageAnswers(p) : TRUE].resp[1].items

\* C14: with no write meanwhile, every List answer for a query reports as
\* total the number T of records that match, and the answers for the pages
\* 1..total_pages hold together exactly the T matching records, each once, in
\* the order of the collection.
C14_PagesCoverMatches ==
    LET q == req[1].query
        M == MatchPositions(QueryFilter(q.search, q.category))
    IN  /\ \A r \in ListReqs :
            Ended(r, "list", 200) => req[r].resp[1].total = Cardinality(M)
        /\ \A r \in ListReqs :
            ( /\ Ended(r, "list", 200)
              /\ \A p \in 1..req[r].resp[1].total_pages : PageAnswers(p) # {} )
            => LET all == PagesUpTo(req[r].resp[1].total_pages) IN
               /\ Len(all) = Cardinality(M)
               /\ \A i \in 1..Len(all) : all[i] = serialize_item(items[Nth(M, i)])
               /\ \A i \in 1..Len(all), j \in 1..Len(all) :
                    all[i].id = all[j].id => i = j

\* a client has fetched pages 1 and 2 of a query with page_size 2 that three
\* records match: two records on the first page, one on the second
C14_Witness ==
    \E a \in ListReqs, b \in ListReqs :
        /\ Ended(a, "list", 200)
        /\ Ended(b, "list", 200)
        /\ req[a].query.page = 1
        /\ req[b].query.page = 2
        /\ req[a].query.page_size = 2
        /\ req[a].resp[1].total = 3
        /\ req[a].resp[1].total_pages = 2
        /\ Len(req[a].resp[1].items) = 2
        /\ Len(req[b].resp[1].items) = 1

\* C15: in every List answer total_pages is 1 when total is 0 and else the
\* least number of pages of page_size records that hold total records;
\* it is never 0.
C15_TotalPagesIsCeiling ==
    \A r \in ListReqs :
        Ended(r, "list", 200) =>
            LET T == req[r].resp[1].total
                S == req[r].resp[1].page_size
                tp == req[r].resp[1].total_pages
            IN  /\ S \in 1..100
                /\ tp >= 1
                /\ T = 0 => tp = 1
                /\ T > 0 => (tp - 1) * S < T /\ T <= tp * S

\* a List with page_size 3 of a collection of four records reported 2 pages
C15_Witness ==
    \E r \in ListReqs :
        /\ Ended(r, "list", 200)
        /\ req[r].resp[1].total = 4
        /\ req[r].resp[1].page_size = 3
        /\ req[r].resp[1].total_pages = 2

\* s is part of text as it stands, upper and lower case taken as equal
ContainsLiteral(text, s) ==
    \E k \in 0..(Len(text) - Len(s)) :
        \A i \in 1..Len(s) : Lower(text[k + i]) = Lower(s[i])

\* s and text are the same string, upper and lower case taken as equal
EqualsLiteral(text, s) ==
    Len(text) = Len(s) /\ \A i \in 1..Len(s) : Lower(text[i]) = Lower(s[i])

\* C16: a List with a search string and no category matches exactly the
\* records whose name contains the string as it stands, upper and lower case
\* taken as equal.
C16_SearchIsLiteralSubstring ==
    \A r \in ListReqs :
        ( /\ Ended(r, "list", 200)
          /\ req[r].query.search # None
          /\ req[r].query.category = None )
        => LET s == Chars(req[r].query.search[1])
               L == {i \in 1..Len(items) : ContainsLiteral(Chars(items[i].name), s)}
           IN  /\ req[r].resp[1].total = Cardinality(L)
               /\ \A i \in 1..Len(req[r].resp[1].items) :
                    ContainsLiteral(Chars(req[r].resp[1].items[i].name), s)

\* C17: a List with a category matches exactly the records whose category is
\* that whole string, upper and lower case taken as equal, and whose name
\* passes the search filter when one is given too.
C17_CategoryIsWholeString ==
    \A r \in ListReqs :
        ( /\ Ended(r, "list", 200)
          /\ req[r].query.category # None )
        => LET c == Chars(req[r].query.category[1])
               nameFilter == QueryFilter(req[r].query.search, None)
               L == {i \in 1..Len(items) :
                        /\ items[i].category # None
                        /\ EqualsLiteral(Chars(items[i].category[1]), c)
                        /\ FilterMatches(items[i], nameFilter)}
           IN  req[r].resp[1].total = Cardinality(L)

\* --------------------------------------------------------------- Statistics
\* the Statistics requests that have been answered
StatsAnswered == {r \in Reqs : req[r].op = "stats" /\ req[r].pc = "done"}

\* the sum of price times quantity over the stored records, in thousandths
StoredValue == SumSeq([i \in 1..Len(items) |-> items[i].price * items[i].quantity])

\* the category values that are neither null nor empty
StoredCategories ==
    {items[i].category[1] : i \in {j \in 1..Len(items) : Truthy(items[j].category)}}

\* a summary's fields other than total_value and average_price describe the
\* stored records
DescribesStore(s) ==
    /\ s.total_items = Len(items)
    /\ s.total_quantity = SumSeq([i \in 1..Len(items) |-> items[i].quantity])
    /\ s.min_price = Min({items[i].price : i \in 1..Len(items)})
    /\ s.max_price = Max({items[i].price : i \in 1..Len(items)})
    /\ {s.categories[i] : i \in 1..Len(s.categories)} = StoredCategories
    /\ \A i, j \in 1..Len(s.categories) : i # j => s.categories[i] # s.categories[j]

\* C18: Statistics on a store with zero records succeeds and returns
\* total_items = 0, total_quantity = 0, total_value = 0, average_price = 0
\* and an empty categories list.
C18_EmptyStoreStatistics ==
    \A r \in StatsAnswered :
        Len(items) = 0 =>
            /\ req[r].status = 200
            /\ req[r].resp # None
            /\ req[r].resp[1].total_items = 0
            /\ req[r].resp[1].total_quantity = 0
            /\ req[r].resp[1].total_value = 0
            /\ req[r].resp[1].average_price = 0
            /\ req[r].resp[1].categories = <<>>

\* a Statistics request has been answered over the empty store
C18_Witness ==
    /\ Len(items) = 0
    /\ \E r \in StatsAnswered : req[r].status = 200

\* C19 as stated: on a non-empty store that nobody writes, Statistics returns
\* total_items = the number of records, total_quantity = the sum of the
\* quantities, total_value = the sum of price times quantity, min_price and
\* max_price = the smallest and largest price, and categories = the distinct
\* category values that are neither null nor empty, each listed once.
C19_TotalValueIsExactSum ==
    \A r \in StatsAnswered :
        Len(items) > 0 =>
            /\ req[r].status = 200
            /\ DescribesStore(req[r].resp[1])
            /\ req[r].resp[1].total_value = StoredValue

\* C19 amended: as stated, except that total_value is the sum of price times
\* quantity rounded to two decimal places: a whole number of hundredths no
\* further than half a hundredth from the sum.
C19_TotalValueIsRoundedSum ==
    \A r \in StatsAnswered :
        Len(items) > 0 =>
            /\ req[r].status = 200
            /\ DescribesStore(req[r].resp[1])
            /\ req[r].resp[1].total_value % 10 = 0
            /\ req[r].resp[1].total_value - StoredValue <= 5
            /\ StoredValue - req[r].resp[1].total_value <= 5

\* a summary of a store with a repeated category, a null and an empty one,
\* whose value has a third decimal and was rounded away from the sum
C19_Witness ==
    /\ \E i, j \in 1..Len(items) : i # j /\ items[i].category = items[j].category
                                        /\ Truthy(items[i].category)
    /\ \E i \in 1..Len(items) : items[i].category = None
    /\ \E i \in 1..Len(items) : items[i].category = Some("")
    /\ StoredValue % 10 # 0
    /\ \E r \in StatsAnswered :
            /\ req[r].status = 200
            /\ Len(req[r].resp[1].categories) >= 2
            /\ req[r].resp[1].total_value # StoredValue

\* the fields of a summary of a store that holds records
SummaryFields ==
    {"total_items", "total_quantity", "total_value", "average_price",
     "min_price", "max_price", "categories"}

\* C21: when the store is empty the Statistics response reports every
\* numeric aggregate as 0, min_price and max_price included: it carries the
\* same fields (total_items, total_quantity, total_value, average_price,
\* min_price, max_price, categories) whether the store is empty or not.
C21_EmptySummaryHasEveryField ==
    \A r \in StatsAnswered :
        /\ req[r].status = 200
        /\ DOMAIN req[r].resp[1] = SummaryFields
        /\ Len(items) = 0 =>
              /\ req[r].resp[1].total_items = 0
              /\ req[r].resp[1].total_quantity = 0
              /\ req[r].resp[1].total_value = 0
              /\ req[r].resp[1].average_price = 0
              /\ req[r].resp[1].min_price = 0
              /\ req[r].resp[1].max_price = 0

\* ------------------------------------------------------ Update against Delete
\* C22: a record removed by Delete is never re-created by an Update that
\* passed its existence check before the deletion: the write of an Update
\* that finds no record with its id inserts nothing, so in every interleaving
\* of an Update and a Delete of one id the store holds no record with that
\* id once the Delete has succeeded.
C22_UpdateNeverRecreates ==
    [][ /\ \A u \in Reqs :
            ( /\ req[u].pc = "write"
              /\ req'[u].pc = "refetch"
              /\ Matches(req[u].item_id) = {} )
            => items' = items
        /\ \A u \in Reqs, d \in Reqs :
            ( /\ req'[u].op = "update"
              /\ req'[u].pc \in {"stamp", "write", "refetch", "done"}
              /\ req'[d].op = "delete" /\ req'[d].pc = "done" /\ req'[d].status = 200
              /\ req'[d].item_id = req'[u].item_id )
            => \A i \in 1..Len(items') : items'[i].id # req'[u].item_id ]_vars

\* an Update found its record, a Delete of the same id then succeeded, and
\* the Update has written and found nothing to return
C22_Witness ==
    \E u \in Reqs, d \in Reqs :
        /\ Ended(u, "update", 500)
        /\ Ended(d, "delete", 200)
        /\ req[d].item_id = req[u].item_id
        /\ Matches(req[u].item_id) = {}

\* ------------------------------------------------------- null in an Update
\* the keys of a JSON body that are given as null, and those given a value
NullKeys(json) == {f \in DOMAIN json : json[f] = None}
ValueKeys(json) == {f \in DOMAIN json : json[f] # None}

\* C23: in an Update body a field given explicitly as null is treated like a
\* field that is absent: it is not part of what is written and leaves the
\* stored value unchanged, a description or category that is stored is never
\* cleared back to null by an Update, and a body whose fields are all null
\* is rejected with 400 like an empty body (404 when there is no record).
C23_NullIsAbsent ==
    [][ /\ \A r \in Reqs :
            (req[r].pc = "stamp" /\ req'[r].pc = "write")
            => DOMAIN req'[r].update_data \ {"updated_at"} = ValueKeys(req[r].json)
        /\ \A r \in Reqs :
            (req[r].pc = "write" /\ req'[r].pc = "refetch"
                /\ Matches(req[r].item_id) # {})
            => \A f \in NullKeys(req[r].json) :
                  Stored(items', req[r].item_id)[f] = Stored(items, req[r].item_id)[f]
        /\ \A i \in 1..Len(items), j \in 1..Len(items') :
            items'[j].id = items[i].id
            => /\ items[i].description # None => items'[j].description # None
               /\ items[i].category # None => items'[j].category # None
        /\ \A r \in Reqs :
            (req[r].pc = "idle" /\ req'[r].op = "update"
                /\ ValueKeys(req'[r].json) = {})
            => /\ req'[r].pc = "done"
               /\ req'[r].status = IF Matches(req'[r].item_id) = {} THEN 404 ELSE 400
      ]_vars

\* an Update with "description": null and a price was answered 200 and the
\* stored description is still there, and an Update with every field null
\* was answered 400
C23_Witness ==
    \E a \in Reqs, b \in Reqs :
        /\ Ended(a, "update", 200)
        /\ req[a].json = [description |-> None, price |-> Some(20)]
        /\ Matches(req[a].item_id) # {}
        /\ Stored(items, req[a].item_id).description = Some("first")
        /\ Stored(items, req[a].item_id).price = 20
        /\ Ended(b, "update", 400)
        /\ NullKeys(req[b].json) = Fields

\* ------------------------------------------- Statistics against Create, Delete
\* the number of records the aggregation of request r ran over
AggregatedOver(r) ==
    IF req[r].stats = None THEN 0 ELSE req[r].stats[1].average_price.n

\* C24: every Statistics response describes one single store state, even
\* when Create and Delete requests run concurrently with it: total_items
\* equals the number of records over which total_quantity, total_value,
\* average_price, min_price and max_price were aggregated; a response never
\* reports total_items > 0 together with aggregates computed over zero
\* records.
C24_SummaryOfOneStoreState ==
    \A r \in StatsAnswered :
        /\ req[r].status = 200
        /\ req[r].resp[1].total_items = AggregatedOver(r)

====
